---- MODULE Spec2Model ----
(***************************************************************************)
(* The JSON action-plan executor of the AI diary backend:                  *)
(* executeJsonActions and the action handlers it dispatches to.            *)
(*                                                                         *)
(* One job is modelled.  A plan is a list of actions, each with a type, a  *)
(* priority and a list of dependencies (priority numbers).  The executor   *)
(* sorts the plan, keeps a work queue, a completed-set and an attempt      *)
(* counter per priority, and dispatches the actions one at a time.  The    *)
(* external collaborators (search provider, LLM router, Ollama, the file   *)
(* system, Fitbit, the memory store) are nondeterministic: every handler   *)
(* action draws the collaborator's answer from a small set.                *)
(*                                                                         *)
(* Optional JavaScript values (null or a value) are sequences of length 0  *)
(* or 1.                                                                   *)
(***************************************************************************)
EXTENDS Integers, Sequences, FiniteSets, TLC

\* ------------------------------------------------------------------------
\* Program constants
\* ------------------------------------------------------------------------

JSON_ACTION_MAX_RETRIES == 3

\* the sort key of an action whose priority is falsy: (a.priority || 5)
DefaultPriority == 5

\* ------------------------------------------------------------------------
\* Bounds of the model
\* ------------------------------------------------------------------------

\* longest initial plan
MaxPlanLen == 2

\* most plan replacements in one job
MaxReplans == 1

\* most items one search appends (the provider returns up to five)
MaxSearchHits == 1

\* most models in the fallback lists of the router functions (the code reads
\* five environment variables)
MaxModels == 3

\* most fetch calls followed in a row
MaxFetches == 2

\* most handler calls followed in a row on one accumulator
MaxHandlerCalls == 2

\* most calls of the Fitbit authorization functions followed on one server
MaxOAuthCalls == 4

\* most requests to /process-and-save followed on one server
MaxJobs == 3

\* last millisecond of the clock that is followed
MaxClock == 2

\* priorities that occur in plans (the data model allows 1..10)
Priorities == 1..5

\* the eight action types of the switch, and one the switch does not know
KnownTypes ==
  {"google_search", "analyze_results", "synthesize", "formulate_response",
   "get_fitbit_data", "get_fitbit_sleep", "memory_search", "memory_store"}

UnknownType == "get_current_time"

ActionTypes == KnownTypes \cup {UnknownType}

\* Action shapes the plan source may emit for the initial plan: analyze
\* actions (the only handler that can raise or re-plan) in every combination
\* of two priorities and three dependency lists, and every other type once
\* or twice with satisfied, forward, missing, self and cyclic dependencies.
AnalyzeShapes ==
  [type : {"analyze_results"}, query : {TRUE}, priority : {1, 2},
   dependencies : {{}, {1}, {3}}]

Shape(t, q, p, d) == [type |-> t, query |-> q, priority |-> p, dependencies |-> d]

PlainShapes ==
  { Shape("google_search", TRUE, 1, {}),
    Shape("google_search", TRUE, 3, {}),
    Shape("synthesize", TRUE, 2, {2}),
    Shape("synthesize", TRUE, 3, {1}),
    Shape("formulate_response", TRUE, 2, {3}),
    Shape("formulate_response", TRUE, 3, {2}),
    Shape("get_fitbit_data", TRUE, 1, {}),
    Shape("get_fitbit_sleep", FALSE, 2, {1}),
    Shape("memory_search", TRUE, 1, {2}),
    Shape("memory_store", TRUE, 3, {1, 2}),
    Shape(UnknownType, TRUE, 2, {}) }

ActionPool == AnalyzeShapes \cup PlainShapes

\* Action shapes of the initial plan in the jobs in which re-planning is
\* possible (the Ollama server answers) and the job folder is writable, and
\* the lengths of those plans
DeepPool ==
  { Shape("analyze_results", TRUE, 2, {}),
    Shape("analyze_results", TRUE, 1, {3}),
    Shape("google_search", TRUE, 1, {}),
    Shape("formulate_response", TRUE, 3, {1}),
    Shape("get_fitbit_data", TRUE, 1, {}) }

DeepPlanLens == {0, 1, 2}

\* Initial plans of the jobs in which re-planning is possible and writes to
\* the job folder may fail
MixedPlans ==
  { << Shape("analyze_results", TRUE, 1, {}) >>,
    << Shape("analyze_results", TRUE, 2, {}), Shape("google_search", TRUE, 1, {}) >>,
    << Shape("analyze_results", TRUE, 1, {3}), Shape("synthesize", TRUE, 3, {}) >>,
    << Shape("formulate_response", TRUE, 3, {}),
       Shape("formulate_response", TRUE, 1, {}) >>,
    << Shape("memory_store", TRUE, 1, {2}),
       Shape("memory_search", TRUE, 2, {3}),
       Shape("memory_search", TRUE, 3, {4}),
       Shape("memory_search", TRUE, 4, {5}),
       Shape("memory_search", TRUE, 5, {}) >>,
    << Shape("analyze_results", TRUE, 1, {2}),
       Shape("memory_search", TRUE, 2, {3}),
       Shape("memory_search", TRUE, 3, {4}),
       Shape("memory_store", TRUE, 4, {}) >> }

\* Action shapes of replacement plans, and the lengths of replacement plans
NewPlanPool ==
  { Shape("google_search", TRUE, 3, {}),
    Shape("analyze_results", TRUE, 1, {}),
    Shape("synthesize", TRUE, 2, {1}),
    Shape("formulate_response", TRUE, 1, {2}) }

NewPlanLens == {0, 1, 2}

SeqsUpTo(S, n) == UNION { [1..k -> S] : k \in 0..n }

WidePlans == SeqsUpTo(ActionPool, MaxPlanLen)

DeepPlans == UNION { [1..k -> DeepPool] : k \in DeepPlanLens }

ReplacementPlans == UNION { [1..k -> NewPlanPool] : k \in NewPlanLens }

\* Replacement plans in the jobs in which writes to the job folder may fail
MixedReplacementPlans ==
  { << Shape("analyze_results", TRUE, 1, {}) >>,
    << Shape("synthesize", TRUE, 2, {1}), Shape("formulate_response", TRUE, 1, {2}) >> }

\* ------------------------------------------------------------------------
\* State
\* ------------------------------------------------------------------------

VARIABLES
  pc,                 \* where executeJsonActions is
  parsedPlan,         \* the plan handed to executeJsonActions (its actions)
  queue,              \* the work queue
  completedActions,   \* Set of priorities
  attemptCounts,      \* Map: priority -> attempts
  executionResults,   \* the result accumulator
  current,            \* the action whose handler is running (0 or 1)
  generation,         \* number of plan replacements so far
  ollamaUp,           \* whether the local Ollama server answers in this job
  ollamaPlans,        \* the plans its conversion call may answer with
  diskOk,             \* whether every write to the job folder succeeds
  executionSummary,   \* the summary built at the end (0 or 1)
  plans,              \* history: the plans installed so far, as authored
  fates,              \* history: how each action that left the queue ended
  last,               \* history: what the last loop iteration did
  job,                \* where processAndCritique is, and what it has done
  calls,              \* log of the calls made to the functions called alone
  fitbitPKCE,         \* global.fitbitPKCE (0 or 1)
  fitbitTokens,       \* the in-memory Fitbit tokens
  outputs,            \* the folders and files under OUTPUTS_DIR
  now                 \* Date.now(), in milliseconds

vars == << pc, parsedPlan, queue, completedActions, attemptCounts,
           executionResults, current, generation, ollamaUp, ollamaPlans, diskOk,
           executionSummary, plans, fates, last, job, calls,
           fitbitPKCE, fitbitTokens, outputs, now >>

\* the state of the server process that outlives a job
server == << fitbitPKCE, fitbitTokens, outputs, now >>

\* what executeJsonActions does not touch
outside == << job, calls, server >>

\* lines 420-427: no token is held when the process starts; nothing is stored
\* by getFitbitAuthorizationUrl yet and no job folder exists
NoTokens == [ access_token |-> << >> ]

ServerInit ==
  /\ fitbitPKCE = << >>
  /\ fitbitTokens = NoTokens
  /\ outputs = [ folders |-> {}, files |-> {} ]
  /\ now = 0

\* An action object.  query says whether the action carries a query string.
\* gen and idx identify the object (the plan generation it was created in and
\* its place in that plan as authored); defers, dispatches and raises are
\* history counters carried by the object, which stop counting one above
\* JSON_ACTION_MAX_RETRIES.
MakeAction(shape, g, i) ==
  [ gen |-> g, idx |-> i, type |-> shape.type, query |-> shape.query,
    priority |-> shape.priority, dependencies |-> shape.dependencies,
    defers |-> 0, dispatches |-> 0, raises |-> 0 ]

MakeActions(shapes, g) == [ i \in 1..Len(shapes) |-> MakeAction(shapes[i], g, i) ]

ActionId(a) == << a.gen, a.idx >>

Counted(n) == IF n > JSON_ACTION_MAX_RETRIES THEN n ELSE n + 1

\* ------------------------------------------------------------------------
\* Sorting: Array.prototype.sort with (a.priority || 5) - (b.priority || 5),
\* which is stable
\* ------------------------------------------------------------------------

SortKey(a) == IF a.priority = 0 THEN DefaultPriority ELSE a.priority

\* variant: x goes in front of the elements whose key equals its own
RECURSIVE InsertBeforeEqual(_, _)
InsertBeforeEqual(x, s) ==
  IF s = << >> THEN << x >>
  ELSE IF SortKey(Head(s)) < SortKey(x)
       THEN << Head(s) >> \o InsertBeforeEqual(x, Tail(s))
       ELSE << x >> \o s

\* x goes behind every element whose key is not greater than its own
RECURSIVE InsertByPriority(_, _)
InsertByPriority(x, s) ==
  IF s = << >> THEN << x >>
  ELSE IF SortKey(Head(s)) <= SortKey(x)
       THEN << Head(s) >> \o InsertByPriority(x, Tail(s))
       ELSE << x >> \o s

\* variant: the actions are left in the order the plan lists them
SortByPriorityAsAuthored(s) == s

RECURSIVE SortByPriority(_)
SortByPriority(s) ==
  IF s = << >> THEN << >>
  ELSE InsertByPriority(s[Len(s)], SortByPriority(SubSeq(s, 1, Len(s) - 1)))

\* ------------------------------------------------------------------------
\* The result accumulator
\* ------------------------------------------------------------------------

\* executionResults as executeJsonActions creates it; fitbitData starts as
\* the snapshot processAndCritique fetched before planning, or null
NewExecutionResults(preFetchedFitbitData) ==
  [ searchResults |-> << >>, analysisResults |-> << >>,
    synthesisResults |-> << >>, finalResponse |-> << >>,
    planUpdateTriggered |-> FALSE, updatedPlan |-> << >>,
    fitbitData |-> preFetchedFitbitData, fitbitSleepData |-> << >> ]

\* What a handler hands back to the try block of the scheduler: the
\* accumulator as the handler left it and whether the handler raised.
\* externalFailed is history: the handler's external call did not complete.
HandlerResult(er, raised, externalFailed) ==
  [ er |-> er, raised |-> raised, externalFailed |-> externalFailed ]

\* ------------------------------------------------------------------------
\* Handlers.  Each takes the action, the accumulator and the answers of its
\* collaborators (o), and gives a HandlerResult.
\* ------------------------------------------------------------------------

\* performGoogleSearch: the items of the provider's answer, [] on any error
performGoogleSearch(action, o) ==
  IF o.provider = "error" THEN << >>
  ELSE [ i \in 1..o.hits |-> [by |-> ActionId(action), item |-> i] ]

SearchOutcomes ==
  { [configured |-> FALSE, provider |-> "ok", hits |-> 0] }
  \cup [configured : {TRUE}, provider : {"error"}, hits : {0}]
  \cup [configured : {TRUE}, provider : {"ok"}, hits : 0..MaxSearchHits]

\* variant: the items replace the list instead of being pushed onto it
executeGoogleSearchReplacing(action, er, o) ==
  IF ~o.configured THEN HandlerResult(er, FALSE, FALSE)
  ELSE HandlerResult(
         [er EXCEPT !.searchResults = performGoogleSearch(action, o)],
         FALSE, o.provider = "error")

\* executeGoogleSearch: returns at once when the credentials are missing;
\* otherwise pushes the items; its own try/catch swallows every error
executeGoogleSearch(action, er, o) ==
  IF ~o.configured THEN HandlerResult(er, FALSE, FALSE)
  ELSE HandlerResult(
         [er EXCEPT !.searchResults = @ \o performGoogleSearch(action, o)],
         FALSE, o.provider = "error")

\* basicAnalysis: pushes a fallback record, then writes it to the job folder;
\* a failed write is not caught
basicAnalysis(action, er, o, externalFailed) ==
  HandlerResult(
    [er EXCEPT !.analysisResults =
       Append(@, [by |-> ActionId(action), analysisType |-> "basic_fallback"])],
    ~o.basicWrite, externalFailed)

\* The value JSON.parse gives for Ollama's answer, tagged as a plan of the
\* next generation: null, an object without an actions list, or a plan
ParsedPlan(o, g) ==
  IF o.conversion = "null" THEN << >>
  ELSE IF o.conversion = "no_actions"
       THEN << [hasActions |-> FALSE, actions |-> << >>] >>
       ELSE << [hasActions |-> TRUE, actions |-> MakeActions(o.plan, g)] >>

\* lines 1896-1909: the flag and the plan are assigned together; the log line
\* that follows raises on a null plan, inside the inner try
SetPlanUpdate(er, plan) ==
  [er EXCEPT !.planUpdateTriggered = TRUE, !.updatedPlan = plan]

\* llm: "text" (an answer without the marker), "marker" (an answer that
\* contains "## UPDATED BREAKDOWN STEPS:") or "failed" (every fallback model
\* failed: callOpenRouterWithFallback returns {success: false}).
\* progressWrite, basicWrite: whether the artifact writes succeed.
\* conversion: "http_error", "unparseable", "write_error" (the plan file could
\* not be written), "null", "no_actions" or "plan".
AnalyzeOutcomes ==
  [ llm : {"text"}, progressWrite : {TRUE}, conversion : {"none"},
    plan : {<< >>}, basicWrite : {TRUE} ]
  \cup [ llm : {"marker"}, progressWrite : {TRUE},
         conversion : {"http_error", "unparseable", "write_error", "null",
                       "no_actions"},
         plan : {<< >>}, basicWrite : {TRUE} ]
  \cup [ llm : {"marker"}, progressWrite : {TRUE}, conversion : {"plan"},
         plan : ReplacementPlans \cup MixedReplacementPlans, basicWrite : {TRUE} ]
  \cup [ llm : {"failed"}, progressWrite : {TRUE}, conversion : {"none"},
         plan : {<< >>}, basicWrite : BOOLEAN ]
  \cup [ llm : {"text"}, progressWrite : {FALSE}, conversion : {"none"},
         plan : {<< >>}, basicWrite : BOOLEAN ]

\* variant: the conversion is also made when the answer has no marker
ConversionAcceptedWithoutMarker(o) ==
  o.llm \in {"marker", "text"} /\ o.conversion \in {"none", "null", "no_actions", "plan"}

\* lines 1866 and 1896-1903: the answer holds the marker, Ollama answered 200,
\* its text went through JSON.parse and the plan file was written
ConversionAccepted(o) ==
  o.llm = "marker" /\ o.conversion \in {"null", "no_actions", "plan"}

\* check_and_update_plan (executeAnalyzeResults only forwards to it)
check_and_update_plan(action, er, o, g) ==
  LET pushed == [er EXCEPT !.analysisResults =
                   Append(@, [by |-> ActionId(action), analysisType |-> "progress"])]
  IN  IF ~o.progressWrite
        THEN \* writeFile raised before the push: outer catch
             basicAnalysis(action, er, o, o.llm = "failed")
      ELSE IF o.llm = "failed"
        THEN \* the content is the failure object: .includes raises after the push
             basicAnalysis(action, pushed, o, TRUE)
      ELSE IF ConversionAccepted(o)
        THEN HandlerResult(SetPlanUpdate(pushed, ParsedPlan(o, g)), FALSE, FALSE)
      ELSE HandlerResult(pushed, FALSE,
                         o.conversion \in {"http_error", "unparseable"})

LlmOutcomes == [ llm : {"text", "failed"}, write : BOOLEAN ]

\* executeSynthesize: the report is written, then pushed; a failure object
\* from the LLM router is pushed like an answer; the catch swallows a failed write
executeSynthesize(action, er, o) ==
  IF ~o.write THEN HandlerResult(er, FALSE, o.llm = "failed")
  ELSE HandlerResult(
         [er EXCEPT !.synthesisResults =
            Append(@, [by |-> ActionId(action), answered |-> o.llm = "text"])],
         FALSE, o.llm = "failed")

\* variant: a response already present is kept
executeFormulateResponseKeepingFirst(action, er, o) ==
  HandlerResult(
    IF er.finalResponse # << >> THEN er
    ELSE [er EXCEPT !.finalResponse =
            << [by |-> ActionId(action), answered |-> o.llm = "text"] >>],
    FALSE, o.llm = "failed")

\* executeFormulateResponse: finalResponse is assigned before the write, and
\* is the failure object when every model failed; the catch swallows the rest
executeFormulateResponse(action, er, o) ==
  HandlerResult(
    [er EXCEPT !.finalResponse =
       << [by |-> ActionId(action), answered |-> o.llm = "text"] >>],
    FALSE, o.llm = "failed")

\* What the Fitbit API does with a request: it answers with a body that
\* holds the data of the date, with a body that holds none, with status 401,
\* or the request fails otherwise (another status, no connection)
ProviderAnswers == { "data", "no_data_in_body", "unauthorized", "error" }

\* What a fetch operation gives its caller: it returns the body, returns null,
\* or raises Error('Token expired')
FetchReturned(body) == [ raised |-> FALSE, error |-> "none", value |-> << body >> ]

FetchNull == [ raised |-> FALSE, error |-> "none", value |-> << >> ]

FetchRaised(message) == [ raised |-> TRUE, error |-> message, value |-> << >> ]

\* getFitbitDailySummary: accessToken says whether a token was passed; the
\* catch turns status 401 into Error('Token expired') and every other
\* failure, the missing token included, into null
getFitbitDailySummary(accessToken, provider) ==
  IF ~accessToken THEN FetchNull
  ELSE IF provider = "unauthorized" THEN FetchRaised("Token expired")
  ELSE IF provider = "error" THEN FetchNull
  ELSE FetchReturned(provider)

\* getFitbitSleepData: the same steps against the sleep endpoint
getFitbitSleepData(accessToken, provider) ==
  IF ~accessToken THEN FetchNull
  ELSE IF provider = "unauthorized" THEN FetchRaised("Token expired")
  ELSE IF provider = "error" THEN FetchNull
  ELSE FetchReturned(provider)

\* token: "none" (getFitbitAccessToken gives null, which it also does on every
\* error of its own) or "valid"; provider: the answer to the fetch
FitbitOutcomes ==
  [ token : {"none"}, provider : {"error"} ]
  \cup [ token : {"valid"}, provider : ProviderAnswers ]

\* What executeFitbitData and executeFitbitSleep store: action.query.includes
\* raises inside the try when the action has no query, before the fetch; the
\* snapshot is stored when the fetch returned a body that holds the data
FitbitSnapshot(action, old, fetched) ==
  IF action.query /\ fetched.value = << "data" >>
  THEN << [by |-> ActionId(action)] >>
  ELSE old

executeFitbitData(action, er, o) ==
  LET fetched == getFitbitDailySummary(TRUE, o.provider)
  IN  IF o.token # "valid" THEN HandlerResult(er, FALSE, FALSE)
      ELSE HandlerResult([er EXCEPT !.fitbitData = FitbitSnapshot(action, @, fetched)],
                         FALSE, action.query /\ fetched.raised)

executeFitbitSleep(action, er, o) ==
  LET fetched == getFitbitSleepData(TRUE, o.provider)
  IN  IF o.token # "valid" THEN HandlerResult(er, FALSE, FALSE)
      ELSE HandlerResult([er EXCEPT !.fitbitSleepData = FitbitSnapshot(action, @, fetched)],
                         FALSE, action.query /\ fetched.raised)

\* case 'memory_search', case 'memory_store', default: no modelled field of
\* the accumulator changes and the inner try/catch swallows every error
MemoryOutcomes == { "ok", "error" }

executeMemory(action, er, o) == HandlerResult(er, FALSE, o = "error")

\* ------------------------------------------------------------------------
\* executeJsonActions
\* ------------------------------------------------------------------------

NoEvent ==
  [ kind |-> "none", action |-> << >>, externalFailed |-> FALSE,
    planSeen |-> << >> ]

Event(kind, action, externalFailed, planSeen) ==
  [ kind |-> kind, action |-> << action >>, externalFailed |-> externalFailed,
    planSeen |-> planSeen ]

\* the snapshot processAndCritique passes as preFetchedFitbitData
PreFetched == { << >>, << [by |-> << 0, 0 >>] >> }

\* processAndCritique: its position, the variables of its retry loop
\* (retryCount; phrase: currentResponse contains the magic phrase), the
\* pre-fetched Fitbit snapshot, and history: the calls to the Task Breakdown
\* AI, the exception that left the normal path (raised), where it was caught
\* (caughtBy) and whether error.txt was written
NewJob ==
  [ pc |-> "start", retryCount |-> 0, phrase |-> FALSE, fitbitData |-> << >>,
    breakdownCalls |-> 0, raised |-> "none", caughtBy |-> "none",
    errorFile |-> FALSE ]

\* processAndCritique as it stands while executeJsonActions runs (line 1418)
ExecutingJob(preFetched) ==
  [ NewJob EXCEPT !.pc = "executing", !.phrase = TRUE, !.fitbitData = preFetched,
                  !.breakdownCalls = 1 ]

ClearedAttempts == [ p \in Priorities |-> 0 ]

\* A job starts with a plan and an environment: any plan of the wide pool
\* while the Ollama server is down (no plan can be replaced) and writes may
\* fail; a plan of the deep pool while the server is up and writes succeed;
\* or one of the mixed plans while the server is up and writes may fail
JobInputs ==
  [ plan : WidePlans, ollamaUp : {FALSE}, ollamaPlans : {{}},
    diskOk : {FALSE}, preFetched : {<< >>} ]
  \cup [ plan : DeepPlans, ollamaUp : {TRUE}, ollamaPlans : {ReplacementPlans},
          diskOk : {TRUE}, preFetched : PreFetched ]
  \cup [ plan : MixedPlans, ollamaUp : {TRUE}, ollamaPlans : {MixedReplacementPlans},
          diskOk : {FALSE}, preFetched : {<< >>} ]

Init ==
  \E jobin \in JobInputs :
    /\ pc = "entry"
    /\ parsedPlan = MakeActions(jobin.plan, 0)
    /\ ollamaUp = jobin.ollamaUp
    /\ ollamaPlans = jobin.ollamaPlans
    /\ diskOk = jobin.diskOk
    /\ queue = << >>
    /\ completedActions = {}
    /\ attemptCounts = ClearedAttempts
    /\ executionResults = NewExecutionResults(jobin.preFetched)
    /\ current = << >>
    /\ generation = 0
    /\ executionSummary = << >>
    /\ plans = << >>
    /\ fates = {}
    /\ last = NoEvent
    /\ job = ExecutingJob(jobin.preFetched)
    /\ calls = << >>
    /\ ServerInit

\* lines 1469-1472: nothing to execute, return without a summary
ReturnNoActions ==
  /\ pc = "entry"
  /\ parsedPlan = << >>
  /\ UNCHANGED outside
  /\ pc' = "done"
  /\ UNCHANGED << parsedPlan, queue, completedActions, attemptCounts,
                  executionResults, current, generation, ollamaUp, ollamaPlans,
                  diskOk, executionSummary, plans, fates, last >>

\* lines 1474-1497: sort the plan in place and copy it into the queue
StartExecution ==
  /\ pc = "entry"
  /\ parsedPlan # << >>
  /\ UNCHANGED outside
  /\ parsedPlan' = SortByPriority(parsedPlan)
  /\ queue' = parsedPlan'
  /\ plans' = << parsedPlan >>
  /\ pc' = "loop"
  /\ UNCHANGED << completedActions, attemptCounts, executionResults, current,
                  generation, ollamaUp, ollamaPlans, diskOk, executionSummary,
                  fates, last >>

\* variant: the dependency test finds nothing missing
UnmetDependenciesNone(action, completed) == {}

\* line 1509
UnmetDependencies(action, completed) ==
  { dep \in action.dependencies : dep \notin completed }

\* variants: the deferral budget is one larger, one smaller
MayDeferOnceMore(attempts) == attempts <= JSON_ACTION_MAX_RETRIES

MayDeferOnceLess(attempts) == attempts + 1 < JSON_ACTION_MAX_RETRIES

\* line 1511
MayDefer(attempts) == attempts < JSON_ACTION_MAX_RETRIES

\* variant: a deferral is not counted
DeferredAttemptsNotCounted(attempts) == attempts

\* line 1512
DeferredAttempts(attempts) == attempts + 1

\* variant: the retry budget is one larger
MayRequeueOnceMore(attempts) == attempts < JSON_ACTION_MAX_RETRIES

\* lines 1617-1618
MayRequeue(attempts) == attempts + 1 < JSON_ACTION_MAX_RETRIES

\* variant: the completed-set is started afresh
MarkCompletedAlone(completed, action) == { action.priority }

\* lines 1613-1615
MarkCompleted(completed, action) == completed \cup { action.priority }

\* line 1630
PlanUpdateDetected(er) == er.planUpdateTriggered /\ er.updatedPlan # << >>

\* (updatedPlan.actions || [])
PlanActions(plan) == IF plan.hasActions THEN plan.actions ELSE << >>

\* variant: the replacement plan's actions are added behind the old queue
NewQueueAppended(er) == queue \o SortByPriority(PlanActions(er.updatedPlan[1]))

\* variant: the counts survive the plan replacement
AttemptsKeptAfterReplan(counts) == counts

\* line 1634: attemptCounts.clear()
AttemptsAfterReplan(counts) == ClearedAttempts

\* lines 1631-1633: the replacement plan's actions, sorted in place
NewQueue(er) == SortByPriority(PlanActions(er.updatedPlan[1]))

\* lines 1631 and 1635: the flag is reset; updatedPlan keeps pointing at the
\* plan, whose actions array is now sorted
ConsumePlanUpdate(er) ==
  [er EXCEPT !.planUpdateTriggered = FALSE,
             !.updatedPlan = << [@[1] EXCEPT !.actions = NewQueue(er)] >>]

\* variant: the deferred action is put back at the front of the queue
QueueUnshift(q, action) == << action >> \o q

\* line 1514: queue.push(action), after the shift of line 1501
QueuePush(q, action) == Append(q, action)

\* variant: the loop goes on without waiting for the handler
HandlerNotAwaited == pc \in {"loop", "handler"}

\* lines 1500-1501 and the awaits of lines 1526-1577: the loop body runs from
\* its top only when the handler called by the previous iteration has settled
HandlerSettled == pc = "loop"

\* lines 1501-1515: the front action has unmet dependencies and attempts left
DeferAction ==
  /\ HandlerSettled
  /\ queue # << >>
  /\ UNCHANGED outside
  /\ LET action == Head(queue)
         attempts == attemptCounts[action.priority]
     IN  /\ UnmetDependencies(action, completedActions) # {}
         /\ MayDefer(attempts)
         /\ attemptCounts' =
              [attemptCounts EXCEPT ![action.priority] = DeferredAttempts(attempts)]
         /\ queue' = QueuePush(Tail(queue), [action EXCEPT !.defers = Counted(@)])
         /\ last' = Event("deferred", action, FALSE, << >>)
  /\ UNCHANGED << pc, parsedPlan, completedActions, executionResults, current,
                  generation, ollamaUp, ollamaPlans, diskOk, executionSummary,
                  plans, fates >>

\* lines 1516-1519: unmet dependencies and no attempts left
SkipAction ==
  /\ HandlerSettled
  /\ queue # << >>
  /\ UNCHANGED outside
  /\ LET action == Head(queue)
         attempts == attemptCounts[action.priority]
     IN  /\ UnmetDependencies(action, completedActions) # {}
         /\ ~MayDefer(attempts)
         /\ queue' = Tail(queue)
         /\ fates' = fates \cup { [action |-> action, fate |-> "skipped"] }
         /\ last' = Event("skipped", action, FALSE, << >>)
  /\ UNCHANGED << pc, parsedPlan, completedActions, attemptCounts,
                  executionResults, current, generation, ollamaUp, ollamaPlans,
                  diskOk, executionSummary, plans >>

\* lines 1523-1524: the dependencies are met, the handler is entered
DispatchAction ==
  /\ HandlerSettled
  /\ queue # << >>
  /\ UNCHANGED outside
  /\ LET action == Head(queue)
     IN  /\ UnmetDependencies(action, completedActions) = {}
         /\ queue' = Tail(queue)
         /\ current' = Append(current, [action EXCEPT !.dispatches = Counted(@)])
         /\ last' = Event("dispatched", action, FALSE, << >>)
  /\ pc' = "handler"
  /\ UNCHANGED << parsedPlan, completedActions, attemptCounts, executionResults,
                  generation, ollamaUp, ollamaPlans, diskOk, executionSummary,
                  plans, fates >>

\* lines 1612-1636: what the loop body does once the handler has returned or
\* raised with result r
FinishDispatch(r) ==
  LET action == [current[1] EXCEPT !.raises = IF r.raised THEN Counted(@) ELSE @]
      attempts == attemptCounts[action.priority]
      requeue == r.raised /\ MayRequeue(attempts)
      replan == ~requeue /\ PlanUpdateDetected(r.er)
      fate == [ action |-> action,
                fate |-> IF r.raised THEN "failed" ELSE "completed" ]
      discarded == { [action |-> queue[i], fate |-> "discarded"] : i \in 1..Len(queue) }
  IN  /\ pc' = "loop"
      /\ current' = << >>
      /\ completedActions' = IF r.raised THEN completedActions
                             ELSE MarkCompleted(completedActions, action)
      /\ attemptCounts' =
           IF requeue THEN [attemptCounts EXCEPT ![action.priority] = attempts + 1]
           ELSE IF replan THEN AttemptsAfterReplan(attemptCounts) ELSE attemptCounts
      /\ queue' = IF requeue THEN Append(queue, action)
                  ELSE IF replan THEN NewQueue(r.er) ELSE queue
      /\ executionResults' = IF replan THEN ConsumePlanUpdate(r.er) ELSE r.er
      /\ generation' = IF replan THEN generation + 1 ELSE generation
      /\ plans' = IF replan THEN Append(plans, PlanActions(r.er.updatedPlan[1]))
                  ELSE plans
      /\ fates' = IF requeue THEN fates
                  ELSE IF replan THEN fates \cup { fate } \cup discarded
                  ELSE fates \cup { fate }
      /\ last' = Event(IF requeue THEN "requeued"
                       ELSE IF r.raised THEN "failed" ELSE "completed",
                       action, r.externalFailed,
                       IF r.er.planUpdateTriggered THEN r.er.updatedPlan ELSE << >>)
      /\ UNCHANGED << parsedPlan, ollamaUp, ollamaPlans, diskOk, executionSummary >>
      /\ UNCHANGED outside

InHandler(types) == pc = "handler" /\ current[1].type \in types

ExecuteGoogleSearch ==
  /\ InHandler({"google_search"})
  /\ \E o \in SearchOutcomes :
       FinishDispatch(executeGoogleSearch(current[1], executionResults, o))

\* the fetch of the conversion call fails while the Ollama server is down; a
\* conversion that yields a plan object is drawn only while the model's bound
\* on plan replacements allows one more
ExecuteAnalyzeResults ==
  /\ InHandler({"analyze_results"})
  /\ \E o \in AnalyzeOutcomes :
       /\ ~ollamaUp => o.conversion \in {"none", "http_error"}
       /\ o.conversion = "plan" => o.plan \in ollamaPlans
       /\ diskOk => o.progressWrite /\ o.basicWrite /\ o.conversion # "write_error"
       /\ o.conversion \in {"no_actions", "plan"} => generation < MaxReplans
       /\ FinishDispatch(
            check_and_update_plan(current[1], executionResults, o, generation + 1))

ExecuteSynthesize ==
  /\ InHandler({"synthesize"})
  /\ \E o \in LlmOutcomes :
       /\ diskOk => o.write
       /\ FinishDispatch(executeSynthesize(current[1], executionResults, o))

ExecuteFormulateResponse ==
  /\ InHandler({"formulate_response"})
  /\ \E o \in LlmOutcomes :
       /\ diskOk => o.write
       /\ FinishDispatch(executeFormulateResponse(current[1], executionResults, o))

ExecuteFitbitData ==
  /\ InHandler({"get_fitbit_data"})
  /\ \E o \in FitbitOutcomes :
       FinishDispatch(executeFitbitData(current[1], executionResults, o))

ExecuteFitbitSleep ==
  /\ InHandler({"get_fitbit_sleep"})
  /\ \E o \in FitbitOutcomes :
       FinishDispatch(executeFitbitSleep(current[1], executionResults, o))

ExecuteMemoryAction ==
  /\ InHandler({"memory_search", "memory_store"})
  /\ \E o \in MemoryOutcomes :
       FinishDispatch(executeMemory(current[1], executionResults, o))

\* default: of the switch
ExecuteUnknownAction ==
  /\ pc = "handler"
  /\ current[1].type \notin KnownTypes
  /\ FinishDispatch(HandlerResult(executionResults, FALSE, FALSE))

\* variant: totalActions counts the actions of the plan installed last
ExecutionSummaryOfLastPlan(plan, er) ==
  [ totalActions |-> Len(plans[Len(plans)]),
    searchResultsFound |-> Len(er.searchResults),
    analysisCompleted |-> Len(er.analysisResults) > 0,
    synthesisCompleted |-> Len(er.synthesisResults) > 0,
    finalResponseGenerated |-> er.finalResponse # << >>,
    fitbitDataRetrieved |-> er.fitbitData # << >>,
    fitbitSleepDataRetrieved |-> er.fitbitSleepData # << >> ]

\* lines 1642-1652
ExecutionSummary(plan, er) ==
  [ totalActions |-> Len(plan),
    searchResultsFound |-> Len(er.searchResults),
    analysisCompleted |-> Len(er.analysisResults) > 0,
    synthesisCompleted |-> Len(er.synthesisResults) > 0,
    finalResponseGenerated |-> er.finalResponse # << >>,
    fitbitDataRetrieved |-> er.fitbitData # << >>,
    fitbitSleepDataRetrieved |-> er.fitbitSleepData # << >> ]

\* lines 1637-1660: the queue is empty; the summary is built and written, and
\* a failed write leaves executeJsonActions by exception
SaveExecutionSummary ==
  /\ pc = "loop"
  /\ queue = << >>
  /\ UNCHANGED outside
  /\ executionSummary' = << ExecutionSummary(parsedPlan, executionResults) >>
  /\ \E written \in BOOLEAN :
       /\ diskOk => written
       /\ pc' = IF written THEN "done" ELSE "threw"
  /\ UNCHANGED << parsedPlan, queue, completedActions, attemptCounts,
                  executionResults, current, generation, ollamaUp, ollamaPlans,
                  diskOk, plans, fates, last >>

Next ==
  \/ ReturnNoActions
  \/ StartExecution
  \/ DeferAction
  \/ SkipAction
  \/ DispatchAction
  \/ ExecuteGoogleSearch
  \/ ExecuteAnalyzeResults
  \/ ExecuteSynthesize
  \/ ExecuteFormulateResponse
  \/ ExecuteFitbitData
  \/ ExecuteFitbitSleep
  \/ ExecuteMemoryAction
  \/ ExecuteUnknownAction
  \/ SaveExecutionSummary

Spec == Init /\ [][Next]_vars

\* The scheduler runs to completion whenever it can take a step: every awaited
\* call of a handler returns or raises, and the loop is synchronous otherwise
LiveSpec == Init /\ [][Next]_vars /\ WF_vars(Next)

\* ------------------------------------------------------------------------
\* processAndCritique: the job around executeJsonActions
\* ------------------------------------------------------------------------

\* rounds of the retry loop around the Task Breakdown AI (line 1286)
maxRetries == 3

\* Plans the JSON Executor may answer with in the jobs that are followed from
\* the start of processAndCritique
JobPlans ==
  { << >>,
    << Shape("google_search", TRUE, 1, {}), Shape(UnknownType, TRUE, 2, {}) >>,
    << Shape("analyze_results", TRUE, 1, {}),
       Shape("formulate_response", TRUE, 2, {3}) >>,
    << Shape("synthesize", TRUE, 3, {1}), Shape("get_fitbit_data", TRUE, 1, {}) >>,
    << Shape("get_fitbit_sleep", FALSE, 2, {}), Shape("memory_search", TRUE, 1, {}) >>,
    << Shape("formulate_response", TRUE, 3, {}) >> }

\* what callOpenRouterWithFallback gives the Task Breakdown AI's caller
BreakdownOutcomes == { "failed", "phrase", "no_phrase" }

\* what callOpenRouterJSONWithFallback gives: failure, the JSON value null, or
\* a plan object
ExecutorOutcomes ==
  [ kind : {"failed", "null"}, plan : {<< >>} ] \cup [ kind : {"plan"}, plan : JobPlans ]

\* lines 1453-1458: the catch of processAndCritique writes error.txt; when
\* that write fails the exception leaves processAndCritique
CatchAtJobBoundary(j, exception, written) ==
  [ j EXCEPT !.pc = IF written THEN "finished" ELSE "rejected",
             !.raised = exception,
             !.caughtBy = IF written THEN "job" ELSE "nobody",
             !.errorFile = written ]

\* lines 1420-1423: the catch around JSON.parse and executeJsonActions
CatchAtParse(j, exception) ==
  [ j EXCEPT !.pc = "finished", !.raised = exception, !.caughtBy = "parse" ]

\* a job starts in a job folder, with executeJsonActions not yet called
JobInit ==
  /\ job = NewJob
  /\ calls = << >>
  /\ diskOk \in BOOLEAN
  /\ ollamaUp = FALSE
  /\ ollamaPlans = {}
  /\ pc = "idle"
  /\ parsedPlan = << >>
  /\ queue = << >>
  /\ completedActions = {}
  /\ attemptCounts = ClearedAttempts
  /\ executionResults = NewExecutionResults(<< >>)
  /\ current = << >>
  /\ generation = 0
  /\ executionSummary = << >>
  /\ plans = << >>
  /\ fates = {}
  /\ last = NoEvent
  /\ ServerInit

schedulerVars ==
  << pc, parsedPlan, queue, completedActions, attemptCounts, executionResults,
     current, generation, executionSummary, plans, fates, last >>

\* lines 1083-1288: the Fitbit pre-fetch (its errors are swallowed), the first
\* call to the Task Breakdown AI, the write of its answer
StartJob ==
  /\ job.pc = "start"
  /\ \E pre \in PreFetched, first \in BreakdownOutcomes, written, errorWritten \in BOOLEAN :
       /\ diskOk => written /\ errorWritten
       /\ LET called == [job EXCEPT !.fitbitData = pre, !.breakdownCalls = 1]
          IN  job' = IF first = "failed"
                       THEN CatchAtJobBoundary(called, "breakdown_failed", errorWritten)
                     ELSE IF ~written
                       THEN CatchAtJobBoundary(called, "write_failed", errorWritten)
                     ELSE [called EXCEPT !.pc = "loop", !.phrase = (first = "phrase")]
  /\ UNCHANGED << schedulerVars, ollamaUp, ollamaPlans, diskOk, calls, server >>

\* variant of MayAskAgain: the Task Breakdown AI is asked again in every round
MayAskAgainEveryRound(j) == j.retryCount < maxRetries

\* line 1429: the last round of the loop makes no further call
MayAskAgain(j) == j.retryCount < maxRetries - 1

\* lines 1289-1296 and 1425-1450: the phrase is missing; the Task Breakdown AI
\* is asked again unless this is the last round
RetryBreakdown ==
  /\ job.pc = "loop"
  /\ job.retryCount < maxRetries
  /\ ~job.phrase
  /\ \E again \in BreakdownOutcomes :
       job' = IF MayAskAgain(job)
              THEN [job EXCEPT !.retryCount = @ + 1, !.breakdownCalls = @ + 1,
                               !.phrase = (again = "phrase")]
              ELSE [job EXCEPT !.retryCount = @ + 1]
  /\ UNCHANGED << schedulerVars, ollamaUp, ollamaPlans, diskOk, calls, server >>

\* lines 1289 and 1451-1452: the loop ends without the phrase
GiveUpBreakdown ==
  /\ job.pc = "loop"
  /\ job.retryCount >= maxRetries
  /\ job' = [job EXCEPT !.pc = "finished"]
  /\ UNCHANGED << schedulerVars, ollamaUp, ollamaPlans, diskOk, calls, server >>

\* lines 1297-1417: the phrase is there; the JSON Executor is asked for the
\* plan, the plan is written and parsed back, and executeJsonActions is called
\* with it.  Nothing between the executor's answer and the call inspects the
\* actions of the plan.
RequestPlan ==
  /\ job.pc = "loop"
  /\ job.retryCount < maxRetries
  /\ job.phrase
  /\ \E o \in ExecutorOutcomes, written, errorWritten \in BOOLEAN :
       /\ diskOk => written /\ errorWritten
       /\ IF o.kind = "failed"
            THEN /\ job' = CatchAtJobBoundary(job, "executor_failed", errorWritten)
                 /\ UNCHANGED schedulerVars
          ELSE IF ~written
            THEN /\ job' = CatchAtJobBoundary(job, "write_failed", errorWritten)
                 /\ UNCHANGED schedulerVars
          ELSE IF o.kind = "null"
            THEN \* parsedPlan.executed = true raises on null
                 /\ job' = CatchAtParse(job, "plan_is_null")
                 /\ UNCHANGED schedulerVars
          ELSE /\ job' = [job EXCEPT !.pc = "executing"]
               /\ pc' = "entry"
               /\ parsedPlan' = MakeActions(o.plan, 0)
               /\ executionResults' = NewExecutionResults(job.fitbitData)
               /\ UNCHANGED << queue, completedActions, attemptCounts, current,
                               generation, executionSummary, plans, fates, last >>
  /\ UNCHANGED << ollamaUp, ollamaPlans, diskOk, calls, server >>

\* lines 1417-1424: executeJsonActions has returned, or has left by an
\* exception, which the catch around JSON.parse takes
ReturnToJob ==
  /\ job.pc = "executing"
  /\ pc \in {"done", "threw"}
  /\ job' = IF pc = "threw" THEN CatchAtParse(job, "execution_threw")
            ELSE [job EXCEPT !.pc = "finished"]
  /\ UNCHANGED << schedulerVars, ollamaUp, ollamaPlans, diskOk, calls, server >>

JobNext ==
  \/ StartJob
  \/ RetryBreakdown
  \/ GiveUpBreakdown
  \/ RequestPlan
  \/ ReturnToJob
  \/ Next

JobSpec == JobInit /\ [][JobNext]_vars

\* ------------------------------------------------------------------------
\* The router functions (callOpenRouterWithFallback and its JSON variant) and
\* the Fitbit fetch operations, called on their own
\* ------------------------------------------------------------------------

\* What one model does with the request of callOpenRouterWithFallback: it
\* answers with text, answers 200 with a body without choices (reading it
\* raises), is rate limited (429), fails with 5xx, fails with another status,
\* or the request does not get through
TextAnswers ==
  { "text", "malformed", "rate_limited", "server_error", "client_error",
    "network_error" }

\* The same for callOpenRouterJSONWithFallback: the content parses as JSON,
\* does not parse, or is missing (the function then parses the text "")
JsonAnswers ==
  { "json", "non_json", "no_content", "rate_limited", "server_error",
    "client_error", "network_error" }

\* the result of a router function; called lists the models that were asked
RouterSuccess(i, called, content, json) ==
  [ success |-> TRUE, attempt |-> i, called |-> called, content |-> content,
    json |-> json ]

RouterFailure(called, n) ==
  [ success |-> FALSE, attempt |-> n, called |-> called, content |-> << >>,
    json |-> << >> ]

\* variant: the loop stops at the first model that fails
RECURSIVE TextLoopStoppingAtFailure(_, _, _)
TextLoopStoppingAtFailure(answers, i, called) ==
  IF i > Len(answers) THEN RouterFailure(called, Len(answers))
  ELSE IF answers[i] = "text"
    THEN RouterSuccess(i, Append(called, i), << "text" >>, << >>)
  ELSE RouterFailure(Append(called, i), Len(answers))

\* lines 2344-2403: the loop over fallbackModels from index i on
RECURSIVE TextLoop(_, _, _)
TextLoop(answers, i, called) ==
  IF i > Len(answers) THEN RouterFailure(called, Len(answers))
  ELSE IF answers[i] = "text"
    THEN RouterSuccess(i, Append(called, i), << "text" >>, << >>)
  ELSE TextLoop(answers, i + 1, Append(called, i))

\* answers[i] is what the i-th configured model does
callOpenRouterWithFallback(answers) == TextLoop(answers, 1, << >>)

\* variant: content that does not parse is handed back as a success
RECURSIVE JsonLoopAcceptingText(_, _, _)
JsonLoopAcceptingText(answers, i, called) ==
  IF i > Len(answers) THEN RouterFailure(called, Len(answers))
  ELSE IF answers[i] = "json"
    THEN RouterSuccess(i, Append(called, i), << "json" >>, << "value" >>)
  ELSE IF answers[i] = "no_content"
    THEN RouterSuccess(i, Append(called, i), << "empty" >>, << "empty_string" >>)
  ELSE IF answers[i] = "non_json"
    THEN RouterSuccess(i, Append(called, i), << "text" >>, << >>)
  ELSE JsonLoopAcceptingText(answers, i + 1, Append(called, i))

\* lines 2441-2516: the loop over jsonFallbackModels from index i on
RECURSIVE JsonLoop(_, _, _)
JsonLoop(answers, i, called) ==
  IF i > Len(answers) THEN RouterFailure(called, Len(answers))
  ELSE IF answers[i] = "json"
    THEN RouterSuccess(i, Append(called, i), << "json" >>, << "value" >>)
  ELSE IF answers[i] = "no_content"
    THEN RouterSuccess(i, Append(called, i), << "empty" >>, << "empty_string" >>)
  ELSE JsonLoop(answers, i + 1, Append(called, i))

callOpenRouterJSONWithFallback(answers) == JsonLoop(answers, 1, << >>)

\* nothing runs but the function under call
StandaloneInit ==
  /\ calls = << >>
  /\ job = NewJob
  /\ diskOk = TRUE
  /\ ollamaUp = FALSE
  /\ ollamaPlans = {}
  /\ pc = "idle"
  /\ parsedPlan = << >>
  /\ queue = << >>
  /\ completedActions = {}
  /\ attemptCounts = ClearedAttempts
  /\ executionResults = NewExecutionResults(<< >>)
  /\ current = << >>
  /\ generation = 0
  /\ executionSummary = << >>
  /\ plans = << >>
  /\ fates = {}
  /\ last = NoEvent
  /\ ServerInit

allButCalls == << schedulerVars, ollamaUp, ollamaPlans, diskOk, job, server >>

\* one call of callOpenRouterWithFallback with up to MaxModels models
CallOpenRouterWithFallback ==
  /\ calls = << >>
  /\ \E answers \in SeqsUpTo(TextAnswers, MaxModels) :
       calls' = << [ fn |-> "callOpenRouterWithFallback", answers |-> answers,
                     result |-> callOpenRouterWithFallback(answers) ] >>
  /\ UNCHANGED allButCalls

\* one call of callOpenRouterJSONWithFallback with up to MaxModels models
CallOpenRouterJSONWithFallback ==
  /\ calls = << >>
  /\ \E answers \in SeqsUpTo(JsonAnswers, MaxModels) :
       calls' = << [ fn |-> "callOpenRouterJSONWithFallback", answers |-> answers,
                     result |-> callOpenRouterJSONWithFallback(answers) ] >>
  /\ UNCHANGED allButCalls

RouterNext == CallOpenRouterWithFallback \/ CallOpenRouterJSONWithFallback

RouterSpec == StandaloneInit /\ [][RouterNext]_vars

\* a call of getFitbitDailySummary, with or without a token
CallGetFitbitDailySummary ==
  /\ Len(calls) < MaxFetches
  /\ \E accessToken \in BOOLEAN, provider \in ProviderAnswers :
       calls' = Append(calls,
                  [ fn |-> "getFitbitDailySummary", accessToken |-> accessToken,
                    provider |-> provider,
                    result |-> getFitbitDailySummary(accessToken, provider) ])
  /\ UNCHANGED allButCalls

\* a call of getFitbitSleepData, with or without a token
CallGetFitbitSleepData ==
  /\ Len(calls) < MaxFetches
  /\ \E accessToken \in BOOLEAN, provider \in ProviderAnswers :
       calls' = Append(calls,
                  [ fn |-> "getFitbitSleepData", accessToken |-> accessToken,
                    provider |-> provider,
                    result |-> getFitbitSleepData(accessToken, provider) ])
  /\ UNCHANGED allButCalls

\* a dispatch of executeFitbitData on its own: the action with or without a
\* query, the accumulator with or without an earlier snapshot
CallExecuteFitbitData ==
  /\ Len(calls) < MaxFetches
  /\ \E query \in BOOLEAN, o \in FitbitOutcomes, old \in PreFetched :
       LET action == MakeAction(Shape("get_fitbit_data", query, 1, {}), 0, 1)
           r == executeFitbitData(action, NewExecutionResults(old), o)
       IN  calls' = Append(calls,
                      [ fn |-> "executeFitbitData", action |-> action,
                        token |-> o.token, provider |-> o.provider,
                        raised |-> r.raised, old |-> old,
                        snapshot |-> r.er.fitbitData ])
  /\ UNCHANGED allButCalls

\* a dispatch of executeFitbitSleep on its own
CallExecuteFitbitSleep ==
  /\ Len(calls) < MaxFetches
  /\ \E query \in BOOLEAN, o \in FitbitOutcomes, old \in PreFetched :
       LET action == MakeAction(Shape("get_fitbit_sleep", query, 1, {}), 0, 1)
           r == executeFitbitSleep(action,
                  [NewExecutionResults(<< >>) EXCEPT !.fitbitSleepData = old], o)
       IN  calls' = Append(calls,
                      [ fn |-> "executeFitbitSleep", action |-> action,
                        token |-> o.token, provider |-> o.provider,
                        raised |-> r.raised, old |-> old,
                        snapshot |-> r.er.fitbitSleepData ])
  /\ UNCHANGED allButCalls

FetchNext ==
  \/ CallGetFitbitDailySummary
  \/ CallGetFitbitSleepData
  \/ CallExecuteFitbitData
  \/ CallExecuteFitbitSleep

FetchSpec == StandaloneInit /\ [][FetchNext]_vars

\* The handlers called one after the other on one accumulator, without the
\* scheduler's queue: between two calls the scheduler's test of lines 1630-1635
\* consumes a plan update
CurrentAccumulator ==
  IF calls = << >> THEN NewExecutionResults(<< >>)
  ELSE IF PlanUpdateDetected(calls[Len(calls)].er)
       THEN ConsumePlanUpdate(calls[Len(calls)].er)
       ELSE calls[Len(calls)].er

\* the answers check_and_update_plan is called with here
AnalyzeCallOutcomes ==
  { o \in AnalyzeOutcomes : o.conversion = "plan" => o.plan \in MixedReplacementPlans }

HandlerCall(fn, o, r) ==
  [ fn |-> fn, o |-> o, before |-> CurrentAccumulator, er |-> r.er,
    raised |-> r.raised ]

CalledAction(type) == MakeAction(Shape(type, TRUE, 1, {}), 0, Len(calls) + 1)

CallCheckAndUpdatePlan ==
  /\ Len(calls) < MaxHandlerCalls
  /\ \E o \in AnalyzeCallOutcomes :
       calls' = Append(calls,
                  HandlerCall("check_and_update_plan", o,
                    check_and_update_plan(CalledAction("analyze_results"),
                                          CurrentAccumulator, o, 1)))
  /\ UNCHANGED allButCalls

\* a call of one of the other handlers
CallOtherHandler ==
  /\ Len(calls) < MaxHandlerCalls
  /\ \/ \E o \in SearchOutcomes :
          calls' = Append(calls,
                     HandlerCall("executeGoogleSearch", o,
                       executeGoogleSearch(CalledAction("google_search"),
                                           CurrentAccumulator, o)))
     \/ \E o \in LlmOutcomes :
          calls' = Append(calls,
                     HandlerCall("executeSynthesize", o,
                       executeSynthesize(CalledAction("synthesize"),
                                         CurrentAccumulator, o)))
     \/ \E o \in LlmOutcomes :
          calls' = Append(calls,
                     HandlerCall("executeFormulateResponse", o,
                       executeFormulateResponse(CalledAction("formulate_response"),
                                                CurrentAccumulator, o)))
     \/ \E o \in FitbitOutcomes :
          calls' = Append(calls,
                     HandlerCall("executeFitbitData", o,
                       executeFitbitData(CalledAction("get_fitbit_data"),
                                         CurrentAccumulator, o)))
     \/ \E o \in FitbitOutcomes :
          calls' = Append(calls,
                     HandlerCall("executeFitbitSleep", o,
                       executeFitbitSleep(CalledAction("get_fitbit_sleep"),
                                          CurrentAccumulator, o)))
     \/ \E o \in MemoryOutcomes :
          calls' = Append(calls,
                     HandlerCall("memory_search", o,
                       executeMemory(CalledAction("memory_search"),
                                     CurrentAccumulator, o)))
  /\ UNCHANGED allButCalls

HandlerNext == CallCheckAndUpdatePlan \/ CallOtherHandler

HandlerSpec == StandaloneInit /\ [][HandlerNext]_vars

\* ------------------------------------------------------------------------
\* The Fitbit authorization: getFitbitAuthorizationUrl and
\* exchangeCodeForTokens, called by the routes of one server.  A call of
\* exchangeCodeForTokens stops at each await, where other calls may run.
\* ------------------------------------------------------------------------

\* what the calls of the authorization functions leave alone
jobVars == << schedulerVars, ollamaUp, ollamaPlans, diskOk, job >>

AuthorizationsBefore(k) ==
  Cardinality({ j \in 1..(k - 1) : calls[j].fn = "getFitbitAuthorizationUrl" })

\* lines 518-519: the code verifier and the state of an authorization attempt;
\* crypto.randomBytes is taken never to repeat a value, so the n-th attempt
\* gets verifier n and state n
generatePKCE(n) == [ codeVerifier |-> n, state |-> n ]

\* line 552: the state check of exchangeCodeForTokens
StateMatches(state) == fitbitPKCE # << >> /\ fitbitPKCE[1].state = state

\* lines 507-539, with the client id and the redirect URL configured: the new
\* verifier and state replace the stored ones
CallGetFitbitAuthorizationUrl ==
  /\ Len(calls) < MaxOAuthCalls
  /\ LET pkce == generatePKCE(AuthorizationsBefore(Len(calls) + 1) + 1)
     IN  /\ fitbitPKCE' = << pkce >>
         /\ calls' = Append(calls, [ fn |-> "getFitbitAuthorizationUrl",
                                     state |-> pkce.state,
                                     codeVerifier |-> pkce.codeVerifier,
                                     pc |-> "returned" ])
  /\ UNCHANGED << jobVars, fitbitTokens, outputs, now >>

\* lines 543-575: a callback arrives with a state that was issued before, or
\* with one that never was (0); the state is checked, and the token request
\* is posted with the stored verifier
CallExchangeCodeForTokens ==
  /\ Len(calls) < MaxOAuthCalls
  /\ \E state \in 0..AuthorizationsBefore(Len(calls) + 1) :
       calls' = Append(calls,
                  IF StateMatches(state)
                  THEN [ fn |-> "exchangeCodeForTokens", state |-> state,
                         codeVerifier |-> fitbitPKCE[1].codeVerifier,
                         pc |-> "posted" ]
                  ELSE [ fn |-> "exchangeCodeForTokens", state |-> state,
                         codeVerifier |-> 0, pc |-> "raised" ])
  /\ UNCHANGED << jobVars, server >>

\* what Fitbit answers to the token request
TokenAnswers == { "access_token", "no_access_token", "rejected" }

\* lines 557-591 and 598-604: the token request is answered; an access token
\* is stored in memory before it is persisted, anything else is raised
TokenRequestAnswered ==
  \E k \in DOMAIN calls, answer \in TokenAnswers :
    /\ calls[k].fn = "exchangeCodeForTokens"
    /\ calls[k].pc = "posted"
    /\ IF answer = "access_token"
         THEN /\ fitbitTokens' = [ access_token |-> << k >> ]
              /\ calls' = [calls EXCEPT ![k].pc = "persisting"]
         ELSE /\ fitbitTokens' = fitbitTokens
              /\ calls' = [calls EXCEPT ![k].pc = "raised"]
    /\ UNCHANGED << jobVars, fitbitPKCE, outputs, now >>

\* lines 592-598: resolveUsrProfId and upsertFitbitTokensDB have been awaited
\* (neither raises); the stored verifier and state are deleted
TokensPersisted ==
  \E k \in DOMAIN calls :
    /\ calls[k].fn = "exchangeCodeForTokens"
    /\ calls[k].pc = "persisting"
    /\ fitbitPKCE' = << >>
    /\ calls' = [calls EXCEPT ![k].pc = "returned"]
    /\ UNCHANGED << jobVars, fitbitTokens, outputs, now >>

OAuthNext ==
  \/ CallGetFitbitAuthorizationUrl
  \/ CallExchangeCodeForTokens
  \/ TokenRequestAnswered
  \/ TokensPersisted

OAuthSpec == StandaloneInit /\ [][OAuthNext]_vars

\* ------------------------------------------------------------------------
\* POST /process-and-save: the route accepts a request, makes the job folder
\* and starts processAndCritique without awaiting it, so jobs overlap
\* ------------------------------------------------------------------------

\* line 1059: Date.now().toString()
JobId(ms) == ToString(ms)

\* line 1062: path.join(OUTPUTS_DIR, jobId)
JobFolderPath(jobId) == << "ai_outputs", jobId >>

\* lines 1266-1267 and 1456: the files a job writes whatever its plan
ResponseFile(ms) == << ToString(ms), "_response.md" >>

ErrorFile == << "error.txt" >>

\* fs.writeFile: the file at that path is created or replaced
WriteFile(disk, folder, name, text) ==
  [ disk EXCEPT !.files =
      { f \in @ : ~(f.folder = folder /\ f.name = name) }
        \cup { [ folder |-> folder, name |-> name, text |-> text ] } ]

\* the clock moves on between two events
Tick ==
  /\ now < MaxClock
  /\ now' = now + 1
  /\ UNCHANGED << jobVars, calls, fitbitPKCE, fitbitTokens, outputs >>

\* lines 1050-1073: the k-th request (its text is k) is accepted; ensureDirSync
\* makes the folder, or finds it there
AcceptJob ==
  /\ Len(calls) < MaxJobs
  /\ LET jobId == JobId(now)
         jobFolderPath == JobFolderPath(jobId)
     IN  /\ outputs' = [outputs EXCEPT !.folders = @ \cup {jobFolderPath}]
         /\ calls' = Append(calls, [ fn |-> "processAndCritique", jobId |-> jobId,
                                     folderPath |-> jobFolderPath,
                                     textToAnalyze |-> Len(calls) + 1,
                                     pc |-> "started" ])
  /\ UNCHANGED << jobVars, fitbitPKCE, fitbitTokens, now >>

\* lines 1266-1269: a job saves the answer of the Task Breakdown AI, with the
\* query it was given
SaveBreakdownResponse ==
  \E k \in DOMAIN calls :
    /\ calls[k].pc = "started"
    /\ outputs' = WriteFile(outputs, calls[k].folderPath, ResponseFile(now),
                            calls[k].textToAnalyze)
    /\ calls' = [calls EXCEPT ![k].pc = "responded"]
    /\ UNCHANGED << jobVars, fitbitPKCE, fitbitTokens, now >>

\* lines 1453-1458: a job that failed writes error.txt and ends
SaveError ==
  \E k \in DOMAIN calls :
    /\ calls[k].pc \in {"started", "responded"}
    /\ outputs' = WriteFile(outputs, calls[k].folderPath, ErrorFile,
                            calls[k].textToAnalyze)
    /\ calls' = [calls EXCEPT ![k].pc = "finished"]
    /\ UNCHANGED << jobVars, fitbitPKCE, fitbitTokens, now >>

AcceptNext ==
  \/ Tick
  \/ AcceptJob
  \/ SaveBreakdownResponse
  \/ SaveError

AcceptSpec == StandaloneInit /\ [][AcceptNext]_vars

\* ------------------------------------------------------------------------
\* Properties
\* ------------------------------------------------------------------------

Waiting == { queue[i] : i \in 1..Len(queue) } \cup { current[i] : i \in 1..Len(current) }

Dropped == { f \in fates : f.fate \in {"skipped", "failed"} }

Returned == pc \in {"done", "threw"}

\* the plan an action belongs to, as authored
PlanOf(a) == plans[a.gen + 1]

Holders(plan, p) == { i \in 1..Len(plan) : plan[i].priority = p }

UniquePriority(a) == Cardinality(Holders(PlanOf(a), a.priority)) = 1

\* priorities of the actions of generation g that have completed
CompletedInGeneration(g) ==
  { f.action.priority : f \in { x \in fates : x.fate = "completed" /\ x.action.gen = g } }

\* the priorities the holders of priority p depend on, within the plan
DependsOn(plan, p) ==
  { d \in UNION { plan[i].dependencies : i \in Holders(plan, p) } :
      Holders(plan, d) # {} }

RECURSIVE DependencyClosure(_, _, _)
DependencyClosure(plan, S, n) ==
  IF n = 0 THEN S
  ELSE DependencyClosure(plan, S \cup UNION { DependsOn(plan, q) : q \in S }, n - 1)

Acyclic(plan) ==
  \A i \in 1..Len(plan) :
    plan[i].priority \notin
      DependencyClosure(plan, DependsOn(plan, plan[i].priority), Len(plan))

FirstStart(a) == a.defers = 0 /\ a.raises = 0

IsPrefix(s, t) == Len(s) <= Len(t) /\ SubSeq(t, 1, Len(s)) = s

\* q holds exactly the actions of plan, in ascending priority, actions of equal
\* priority in the order the plan lists them
IsStableSortOf(q, plan) ==
  /\ Len(q) = Len(plan)
  /\ { q[i] : i \in 1..Len(q) } = { plan[i] : i \in 1..Len(plan) }
  /\ \A i, j \in 1..Len(q) :
       i < j => \/ q[i].priority < q[j].priority
                \/ q[i].priority = q[j].priority /\ q[i].idx < q[j].idx

\* C1: whenever a handler is running for an action, every priority in the
\* action's dependencies is in the completed-set, or is the priority of an
\* action that was dropped after exhausting its retries.
DependenciesMetAtDispatch ==
  pc = "handler" =>
    \A dep \in current[1].dependencies :
      \/ dep \in completedActions
      \/ \E f \in Dropped : f.action.priority = dep

\* a handler runs for an action that has dependencies and was deferred before
\* they were met
DispatchedAfterDeferral ==
  /\ pc = "handler"
  /\ current[1].dependencies # {}
  /\ current[1].defers > 0
  /\ completedActions # {}

\* C2: no action object (an action of one plan generation) is dispatched more
\* than JSON_ACTION_MAX_RETRIES times or deferred more than
\* JSON_ACTION_MAX_RETRIES times, and an action that was dropped is not in the
\* queue or in its handler afterwards.
RetryBudgetRespected ==
  /\ \A a \in Waiting \cup { f.action : f \in fates } :
       /\ a.dispatches <= JSON_ACTION_MAX_RETRIES
       /\ a.defers <= JSON_ACTION_MAX_RETRIES
  /\ \A f \in Dropped : \A a \in Waiting : ActionId(a) # ActionId(f.action)

\* one action was dropped after JSON_ACTION_MAX_RETRIES deferrals and another
\* after JSON_ACTION_MAX_RETRIES dispatches
BothBudgetsExhausted ==
  /\ \E f \in fates : f.fate = "skipped" /\ f.action.defers = JSON_ACTION_MAX_RETRIES
  /\ \E f \in fates : f.fate = "failed" /\ f.action.dispatches = JSON_ACTION_MAX_RETRIES

EventuallyReturns == <>(Returned /\ queue = << >>)

\* executeJsonActions has returned after a plan replacement and after an
\* action was dropped for dependencies that were never met
ReturnedAfterReplanAndSkip ==
  /\ pc = "done"
  /\ generation >= 1
  /\ \E f \in fates : f.fate = "skipped"

\* C6: when the external call of a handler did not complete, the dispatch ends
\* as an attempt failure: the action is re-queued or dropped, not completed.
ExternalFailureIsAttemptFailure ==
  last.externalFailed => last.kind \in {"requeued", "failed"}

\* dep is a dependency of a that cannot be satisfied: no action of a's plan
\* has that priority, or a holds it itself, or an action of the plan holding it
\* was dropped; and the priority never entered the completed-set
NeverSatisfied(a, dep) ==
  /\ dep \notin completedActions
  /\ \/ Holders(PlanOf(a), dep) = {}
     \/ dep = a.priority
     \/ \E f \in Dropped : f.action.gen = a.gen /\ f.action.priority = dep

Unsatisfiable(a) ==
  UniquePriority(a) /\ \E dep \in a.dependencies : NeverSatisfied(a, dep)

DeferredThenDropped(f) ==
  /\ f.fate = "skipped"
  /\ f.action.defers = JSON_ACTION_MAX_RETRIES
  /\ f.action.dispatches = 0

\* a plan made only of a respond action that can never run gives a summary
\* with finalResponseGenerated = false, and the only exception that leaves
\* executeJsonActions is the failed write of the summary file
LoneRespondGivesNoResponse ==
  /\ (/\ pc = "done"
      /\ Len(parsedPlan) = 1
      /\ parsedPlan[1].type = "formulate_response"
      /\ Unsatisfiable(parsedPlan[1]))
       => ~executionSummary[1].finalResponseGenerated
  /\ pc = "threw" => ~diskOk

RaisedDispatchRequeues ==
  /\ last.kind = "requeued" =>
       queue # << >> /\ queue[Len(queue)] = last.action[1]
  /\ last.kind = "failed" => pc \in {"loop", "done", "threw"}
  /\ \A f \in fates :
       (f.fate = "completed" /\ f.action.raises = 2) =>
         f.action.dispatches = 3 /\ f.action.priority \in completedActions

RaisedDispatchCompletesNothing ==
  (pc = "handler" /\ last'.kind \in {"requeued", "failed"}) =>
    completedActions' = completedActions

PlanUpdateConsumedBeforeDispatch ==
  /\ executionResults.planUpdateTriggered <=> executionResults.updatedPlan # << >>
  /\ pc = "handler" =>
       /\ ~executionResults.planUpdateTriggered
       /\ executionResults.updatedPlan = << >>

\* C10: in every step each of the three lists of the accumulator keeps its
\* entries, in place, and at most gains entries at its end.
ListsOnlyGrow ==
  [][/\ IsPrefix(executionResults.searchResults, executionResults'.searchResults)
     /\ IsPrefix(executionResults.analysisResults, executionResults'.analysisResults)
     /\ IsPrefix(executionResults.synthesisResults,
                 executionResults'.synthesisResults)]_vars

\* the search-results list holds the items of two different dispatches
SearchResultsOfTwoDispatches ==
  /\ Len(executionResults.searchResults) >= 2
  /\ executionResults.searchResults[1].by # executionResults.searchResults[2].by

\* the respond actions among the fates that completed
CompletedResponds ==
  { f.action : f \in { x \in fates : x.fate = "completed"
                                      /\ x.action.type = "formulate_response" } }

\* the initial plan is two respond actions of different priorities without
\* dependencies
TwoIndependentResponds ==
  /\ Len(parsedPlan) = 2
  /\ \A i \in 1..2 : /\ parsedPlan[i].type = "formulate_response"
                      /\ parsedPlan[i].dependencies = {}
  /\ parsedPlan[1].priority # parsedPlan[2].priority

\* C11: a step of the respond handler leaves the output of the action it ran
\* for in finalResponse and no other step changes finalResponse, so at job end
\* finalResponse is the output of the respond action that ran last; and when
\* the plan is two respond actions of different priorities without
\* dependencies, both have run and finalResponse is the output of the one with
\* the larger priority.
LastRespondWins ==
  /\ [][IF pc = "handler" /\ current[1].type = "formulate_response"
        THEN /\ executionResults'.finalResponse # << >>
             /\ executionResults'.finalResponse[1].by = ActionId(current[1])
        ELSE executionResults'.finalResponse = executionResults.finalResponse]_vars
  /\ [](Returned /\ TwoIndependentResponds =>
          /\ Cardinality(CompletedResponds) = 2
          /\ \A a \in CompletedResponds :
               /\ a.dispatches = 1
               /\ a.priority <= parsedPlan[2].priority
          /\ executionResults.finalResponse[1].by = ActionId(parsedPlan[2]))

\* the job of two independent respond actions, listed with the larger priority
\* first, has returned with the output of the larger priority
SecondRespondIsFinal ==
  /\ pc = "done"
  /\ TwoIndependentResponds
  /\ plans[1][1].priority > plans[1][2].priority
  /\ executionResults.finalResponse[1].by = ActionId(plans[1][1])

\* the actions of generation g that have been dispatched at least once
DispatchedOf(g) ==
  { a \in Waiting \cup { f.action : f \in fates } : a.gen = g /\ a.dispatches > 0 }

\* C12: when a plan handed to executeJsonActions holds an action whose type is
\* not one of the eight known types, no action of that plan is ever dispatched.
MalformedPlanNotExecuted ==
  \A g \in 1..Len(plans) :
    (\E i \in 1..Len(plans[g]) : plans[g][i].type \notin KnownTypes)
      => DispatchedOf(g - 1) = {}

\* C13: when executeJsonActions has ended on an empty plan, it has returned
\* normally, no handler was invoked, and there is a summary whose counts are
\* all zero.
EmptyPlanGivesZeroSummary ==
  (Returned /\ parsedPlan = << >>) =>
    /\ pc = "done"
    /\ fates = {}
    /\ executionSummary # << >>
    /\ executionSummary[1].totalActions = 0
    /\ executionSummary[1].searchResultsFound = 0

\* C16: processAndCritique never ends by an exception, and every exception
\* that left the normal path of a job is recorded in error.txt.
ExceptionsRecordedAtJobBoundary ==
  /\ job.pc # "rejected"
  /\ job.raised # "none" => job.errorFile

\* C17: no step removes a priority from the completed-set, and the step that
\* replaces the plan changes the set only by the priority of the action whose
\* handler has just returned.
CompletedSetOnlyGrows ==
  [][/\ completedActions \subseteq completedActions'
     /\ generation' # generation =>
          completedActions' = completedActions \cup { current[1].priority }]_vars

\* after a plan replacement the completed-set holds priorities completed
\* under both plans
CompletedUnderBothPlans ==
  /\ generation >= 1
  /\ \E c \in CompletedInGeneration(0) :
       /\ c \notin CompletedInGeneration(generation)
       /\ c \in completedActions
  /\ CompletedInGeneration(generation) \ CompletedInGeneration(0) # {}

\* C18: the step that replaces the plan leaves every attempt count at 0, and
\* no other step resets or decreases an attempt count.
AttemptCountsResetOnlyByReplan ==
  [][IF generation' # generation
     THEN \A p \in Priorities : attemptCounts'[p] = 0
     ELSE \A p \in Priorities : attemptCounts'[p] >= attemptCounts[p]]_vars

\* a plan has just been replaced by one that uses a priority under which an
\* action of the old plan had been deferred or retried
ReplacedPlanReusesCountedPriority ==
  /\ last.planSeen # << >>
  /\ \E f \in fates, i \in 1..Len(queue) :
       /\ f.action.defers + f.action.raises > 0
       /\ f.action.gen = generation - 1
       /\ f.action.priority = queue[i].priority
       /\ attemptCounts[queue[i].priority] = 0

\* C19: at most one handler is in flight, and the loop takes an action from
\* the queue only while none is.
OneHandlerInFlight ==
  /\ Len(current) <= 1
  /\ pc = "handler" <=> current # << >>

\* a handler is in flight while other actions wait in the queue
HandlerRunsWhileOthersWait ==
  /\ pc = "handler"
  /\ Len(current) = 1
  /\ Len(queue) >= 1

\* the models asked by a call are the first models of the list, in order
AskedInOrder(c) ==
  /\ Len(c.result.called) <= Len(c.answers)
  /\ \A i \in 1..Len(c.result.called) : c.result.called[i] = i

\* C14: a call of callOpenRouterWithFallback asks the models in the order of
\* the list; every model asked before the last one asked had failed (among
\* them the rate-limited ones and those with a server error); a success comes
\* from the last model asked, which answered, and no later model is asked; and
\* a failure is returned only when every model was asked and none answered.
FallbackTriesModelsInOrder ==
  \A k \in 1..Len(calls) :
    LET c == calls[k]
        r == c.result
    IN  c.fn = "callOpenRouterWithFallback" =>
          /\ AskedInOrder(c)
          /\ \A i \in 1..Len(r.called) - 1 : c.answers[i] # "text"
          /\ r.success =>
               /\ r.called # << >>
               /\ r.attempt = Len(r.called)
               /\ c.answers[r.attempt] = "text"
          /\ ~r.success =>
               /\ Len(r.called) = Len(c.answers)
               /\ \A i \in 1..Len(c.answers) : c.answers[i] # "text"

\* the first model was rate limited, the second had a server error, the third
\* answered
ThirdModelAnswered ==
  \E k \in 1..Len(calls) :
    /\ calls[k].fn = "callOpenRouterWithFallback"
    /\ calls[k].answers = << "rate_limited", "server_error", "text" >>
    /\ calls[k].result.success
    /\ calls[k].result.attempt = 3

\* C15: in a call of callOpenRouterJSONWithFallback a model whose content does
\* not parse as JSON is passed over like a failed model (the next one is
\* asked, and the call fails if there is none), and a success carries a parsed
\* JSON value.
NonJsonCountsAsFailure ==
  \A k \in 1..Len(calls) :
    LET c == calls[k]
        r == c.result
    IN  c.fn = "callOpenRouterJSONWithFallback" =>
          /\ AskedInOrder(c)
          /\ \A i \in 1..Len(r.called) :
               c.answers[i] = "non_json" =>
                 IF i < Len(c.answers) THEN i < Len(r.called) ELSE ~r.success
          /\ r.success =>
               /\ r.json # << >>
               /\ c.answers[r.attempt] \in {"json", "no_content"}

\* the first model answered with text that is not JSON and the second with
\* JSON
SecondModelGaveJson ==
  \E k \in 1..Len(calls) :
    /\ calls[k].fn = "callOpenRouterJSONWithFallback"
    /\ Len(calls[k].answers) >= 2
    /\ calls[k].answers[1] = "non_json"
    /\ calls[k].answers[2] = "json"
    /\ calls[k].result.success
    /\ calls[k].result.attempt = 2
    /\ calls[k].result.json = << "value" >>

\* C20: a fetch operation returns null without raising whenever the provider
\* has no data for the date (it answers with a body that holds none, or the
\* request fails otherwise than with status 401), and an expired credential
\* gives a result that differs from null.
NoDataGivesNull ==
  \A k \in 1..Len(calls) :
    LET c == calls[k]
    IN  c.fn \in {"getFitbitDailySummary", "getFitbitSleepData"} =>
          /\ ~c.accessToken => c.result = FetchNull
          /\ (c.accessToken /\ c.provider \in {"no_data_in_body", "error"}) =>
               c.result = FetchNull
          /\ (c.accessToken /\ c.provider = "unauthorized") =>
               /\ c.result.raised
               /\ c.result # FetchNull

\* the step ends a dispatch, and the handler has set the flag during it
HandlerSetFlag ==
  /\ pc = "handler"
  /\ pc' = "loop"
  /\ \/ generation' # generation
     \/ executionResults'.planUpdateTriggered /\ ~executionResults.planUpdateTriggered

\* C21: whenever a dispatch ends and its handler has set the flag, whatever
\* the type of the action and whether the handler returned or raised, the same
\* loop iteration replaces the queue by the replacement plan's actions, so
\* that no other action is dispatched from the old queue.
FlagSetMeansQueueReplaced ==
  [][HandlerSetFlag =>
       /\ generation' = generation + 1
       /\ ~executionResults'.planUpdateTriggered
       /\ \A i \in 1..Len(queue') : queue'[i].gen = generation']_vars

\* the step is a deferral
IsDeferral == pc = "loop" /\ pc' = "loop" /\ last'.kind = "deferred"

\* C22: a deferral moves the front action to the back of the queue and leaves
\* the actions that were behind it in their order in front of it; and no step
\* of the loop that keeps the plan takes anything but the front action from
\* the queue or adds anything but one action at the back.  So the actions that were behind a deferred
\* action are each considered once, in queue order, before it is considered
\* again.
DeferredGoesToBack ==
  [][/\ IsDeferral =>
          /\ Len(queue') = Len(queue)
          /\ SubSeq(queue', 1, Len(queue') - 1) = Tail(queue)
          /\ ActionId(queue'[Len(queue')]) = ActionId(Head(queue))
          /\ queue'[Len(queue')].defers = Head(queue).defers + 1
     /\ (pc # "entry" /\ generation' = generation) =>
          /\ \/ IsPrefix(queue, queue')
             \/ queue # << >> /\ IsPrefix(Tail(queue), queue')
          /\ Len(queue') <= Len(queue) + 1]_vars

\* an action is deferred for the second time: the action that was behind it
\* at its first deferral has been considered in between and waits in front
DeferredAgainAfterTheOthers ==
  /\ last.kind = "deferred"
  /\ last.action[1].defers = 1
  /\ Len(queue) = 2
  /\ ActionId(queue[2]) = ActionId(last.action[1])
  /\ queue[1].defers = 1

\* C23: the queue that executeJsonActions starts its loop with holds exactly
\* the actions of the plan, in ascending priority, and actions of equal
\* priority stand in the order in which the plan lists them.
InitialQueueIsStableSort ==
  [][(pc = "entry" /\ pc' = "loop") =>
       /\ IsStableSortOf(queue', parsedPlan)
       /\ \A i \in 1..Len(parsedPlan) : parsedPlan[i].idx = i]_vars

\* the loop starts with two actions of equal priority and different types
InitialQueueWithTie ==
  /\ pc = "loop"
  /\ last = NoEvent
  /\ Len(queue) = 2
  /\ queue[1].priority = queue[2].priority
  /\ queue[1].type # queue[2].type
  /\ queue[1].idx < queue[2].idx

RECURSIVE SumOfPairs(_)
SumOfPairs(S) ==
  IF S = {} THEN 0
  ELSE LET x == CHOOSE y \in S : TRUE IN x[2] + SumOfPairs(S \ { x })

\* how often the actions of generation g with priority p were, taken together,
\* put back into the queue: their deferrals, and their raised dispatches other
\* than the one after which an action was dropped
PutBackTimes(g, p) ==
  SumOfPairs(
    { << ActionId(a), a.defers + a.raises >> :
        a \in { x \in Waiting : x.gen = g /\ x.priority = p } }
    \cup
    { << ActionId(f.action),
         f.action.defers + f.action.raises - (IF f.fate = "failed" THEN 1 ELSE 0) >> :
        f \in { x \in fates : x.action.gen = g /\ x.action.priority = p } })

\* C24: every attempt count is within 0..JSON_ACTION_MAX_RETRIES; the count
\* of a priority is the number of times the actions of the current plan with
\* that priority were, taken together, deferred or re-queued after a failure;
\* and for every plan generation that number is at most
\* JSON_ACTION_MAX_RETRIES.
SharedAttemptCounter ==
  /\ \A p \in Priorities : attemptCounts[p] \in 0..JSON_ACTION_MAX_RETRIES
  /\ \A p \in Priorities : PutBackTimes(generation, p) = attemptCounts[p]
  /\ \A g \in 0..generation : \A p \in Priorities :
       PutBackTimes(g, p) <= JSON_ACTION_MAX_RETRIES

\* two actions of one plan share a priority and have used up its budget
\* together: one was dropped after a single deferral, the other was deferred
\* twice
BudgetSpentByTwoActions ==
  \E f \in fates : \E a \in Waiting \cup { x.action : x \in fates } :
    /\ f.fate = "skipped"
    /\ f.action.defers = 1
    /\ a.gen = f.action.gen
    /\ a.priority = f.action.priority
    /\ ActionId(a) # ActionId(f.action)
    /\ a.defers = 2
    /\ attemptCounts[a.priority] = JSON_ACTION_MAX_RETRIES

\* the number of times a respond handler was entered
RespondDispatches ==
  SumOfPairs({ << ActionId(a), a.dispatches >> :
                 a \in { x \in Waiting \cup { f.action : f \in fates } :
                           x.type = "formulate_response" } })

\* C25: the summary reports finalResponseGenerated = true only if a respond
\* handler was entered, and not when the job's only dispatch of a respond
\* action got no answer because every fallback model failed.
FinalResponseReportedOnlyIfProduced ==
  (executionSummary # << >> /\ executionSummary[1].finalResponseGenerated) =>
    /\ RespondDispatches >= 1
    /\ RespondDispatches = 1 => executionResults.finalResponse[1].answered

\* C26: a dispatch of a device-data action, with or without a query, does not
\* raise, and when the credentials are valid and the provider answers with the
\* data of the date it leaves the fetched data as the snapshot, in place of
\* whatever snapshot was there.
DeviceSnapshotOverwritten ==
  \A k \in 1..Len(calls) :
    LET c == calls[k]
    IN  c.fn \in {"executeFitbitData", "executeFitbitSleep"} =>
          /\ ~c.raised
          /\ (c.token = "valid" /\ c.provider = "data") =>
               c.snapshot = << [by |-> ActionId(c.action)] >>

\* C27: every dispatch of an analyze action whose handler returns appends
\* exactly one record to the analysis list, the record of that dispatch.
AnalyzeAppendsOneRecord ==
  [][(pc = "handler" /\ current[1].type = "analyze_results" /\ pc' = "loop"
        /\ last'.kind = "completed") =>
       /\ Len(executionResults'.analysisResults)
            = Len(executionResults.analysisResults) + 1
       /\ IsPrefix(executionResults.analysisResults, executionResults'.analysisResults)
       /\ executionResults'.analysisResults[Len(executionResults'.analysisResults)].by
            = ActionId(current[1])]_vars

\* the call is one of check_and_update_plan in which the answer held the
\* marker and the conversion call returned text that parses
ParsedConversion(c) ==
  /\ c.fn = "check_and_update_plan"
  /\ c.o.progressWrite
  /\ c.o.llm = "marker"
  /\ c.o.conversion \in {"null", "no_actions", "plan"}

\* C28: a handler call changes the flag or the replacement plan only if it is
\* a call of the analyze handler whose LLM answer holds the marker and whose
\* conversion call returned text that parses; after every other call (another
\* handler, no marker, a failed or unparseable conversion) the flag is as
\* before, and when it was unset the scheduler's test finds no plan update.
FlagSetOnlyByAnalyzeWithPlan ==
  \A k \in 1..Len(calls) :
    LET c == calls[k]
    IN  ~ParsedConversion(c) =>
          /\ c.er.planUpdateTriggered = c.before.planUpdateTriggered
          /\ c.er.updatedPlan = c.before.updatedPlan
          /\ ~c.before.planUpdateTriggered => ~PlanUpdateDetected(c.er)

\* an analyze call without the marker left the flag unset, and the next
\* analyze call, with marker and a converted plan, set it
FlagSetBySecondAnalyze ==
  /\ Len(calls) = 2
  /\ calls[1].fn = "check_and_update_plan"
  /\ calls[1].o.llm = "text"
  /\ ~calls[1].er.planUpdateTriggered
  /\ ParsedConversion(calls[2])
  /\ calls[2].o.conversion = "plan"
  /\ calls[2].er.planUpdateTriggered
  /\ PlanUpdateDetected(calls[2].er)

\* a parsed value that is a plan: it has an actions list and every action is
\* of a known type
ValidPlan(plan) ==
  /\ plan.hasActions
  /\ \A i \in 1..Len(plan.actions) : plan.actions[i].type \in KnownTypes

\* C29: the queue is replaced only by a valid plan: a step that ends a
\* dispatch with a converted value that is not a valid plan keeps the queue
\* and the plan generation as they are.
InvalidPlanNotInstalled ==
  [][(pc = "handler" /\ pc' = "loop" /\ executionResults'.updatedPlan # << >>
        /\ ~ValidPlan(executionResults'.updatedPlan[1])) =>
       /\ generation' = generation
       /\ queue' = queue]_vars

\* the actions handed to the scheduler so far, by identity
HandedOver ==
  UNION { { << g - 1, i >> : i \in 1..Len(plans[g]) } : g \in 1..Len(plans) }

FatesOf(id) == { f \in fates : ActionId(f.action) = id }

\* no action has two ends, an action that has ended does not wait or run, an
\* action that succeeded did so on its last dispatch, and once
\* executeJsonActions has returned every action has ended
ConsumedOnce ==
  /\ \A id \in HandedOver :
       /\ Cardinality(FatesOf(id)) <= 1
       /\ FatesOf(id) # {} => \A a \in Waiting : ActionId(a) # id
       /\ Returned => Cardinality(FatesOf(id)) = 1
  /\ \A f \in fates :
       /\ ActionId(f.action) \in HandedOver
       /\ f.fate = "completed" => f.action.dispatches = f.action.raises + 1

\* C30 as stated: every action handed to the scheduler ends exactly once, in
\* success, permanent failure or permanent skip, and is not dispatched again
\* after a dispatch that succeeded.
EndsInSuccessFailureOrSkip ==
  /\ ConsumedOnce
  /\ \A f \in fates : f.fate \in {"completed", "failed", "skipped"}

\* C30: every action handed to the scheduler ends exactly once, in success,
\* permanent failure, permanent skip or, while it waits in the queue, by the
\* replacement of its plan, and is not dispatched again after a dispatch that
\* succeeded.
EndsOnceUnlessPlanReplaced ==
  /\ ConsumedOnce
  /\ \A f \in fates :
       \/ f.fate \in {"completed", "failed", "skipped"}
       \/ f.fate = "discarded" /\ f.action.gen < generation

\* executeJsonActions has returned after actions ended in success, in a
\* permanent skip and by the replacement of their plan
ReturnedWithEveryKindOfEnd ==
  /\ pc = "done"
  /\ \E f \in fates : f.fate = "completed" /\ f.action.gen = generation
  /\ \E f \in fates : f.fate = "skipped"
  /\ \E f \in fates : f.fate = "discarded"

\* the plan has unique priorities, no dependency cycle, and every dependency
\* is the priority of one of its actions
WellFormed(plan) ==
  /\ \A i \in 1..Len(plan) : Cardinality(Holders(plan, plan[i].priority)) = 1
  /\ Acyclic(plan)
  /\ \A i \in 1..Len(plan) : \A d \in plan[i].dependencies : Holders(plan, d) # {}

\* C31: when executeJsonActions has returned from a well-formed plan that was
\* not replaced and none of whose handlers raised, every action of the plan
\* was dispatched and completed, and none was dropped.
WellFormedPlanRunsEveryAction ==
  (/\ Returned
   /\ plans # << >>
   /\ generation = 0
   /\ WellFormed(plans[1])
   /\ \A f \in fates : f.action.raises = 0)
    => /\ \A f \in fates : f.fate = "completed" /\ f.action.dispatches = 1
       /\ Cardinality(fates) = Len(plans[1])

\* max(1, JSON_ACTION_MAX_RETRIES - d)
DispatchBudget(d) ==
  IF JSON_ACTION_MAX_RETRIES - d > 1 THEN JSON_ACTION_MAX_RETRIES - d ELSE 1

\* C32: an action whose priority is unique in its plan and that was deferred
\* d times is dispatched at most max(1, JSON_ACTION_MAX_RETRIES - d) times,
\* its deferrals and dispatches together are at most
\* JSON_ACTION_MAX_RETRIES + 1, and when it was deferred
\* JSON_ACTION_MAX_RETRIES times and its handler raised it was dropped after
\* that one dispatch.
DeferralsAndFailuresShareBudget ==
  /\ \A a \in { x \in Waiting \cup { f.action : f \in fates } : UniquePriority(x) } :
       /\ a.dispatches <= DispatchBudget(a.defers)
       /\ a.defers + a.dispatches <= JSON_ACTION_MAX_RETRIES + 1
  /\ \A f \in fates :
       (UniquePriority(f.action) /\ f.action.defers = JSON_ACTION_MAX_RETRIES
          /\ f.action.raises > 0)
         => f.fate = "failed" /\ f.action.dispatches = 1

\* an action of unique priority was deferred JSON_ACTION_MAX_RETRIES times and
\* dropped after its only dispatch raised
DroppedAfterSharedBudget ==
  \E f \in fates :
    /\ UniquePriority(f.action)
    /\ f.fate = "failed"
    /\ f.action.defers = JSON_ACTION_MAX_RETRIES
    /\ f.action.dispatches = 1

\* the priorities completed by the actions of any plan generation so far
CompletedInAnyGeneration == UNION { CompletedInGeneration(g) : g \in 0..generation }

\* C33: the completed-set is the set of priorities completed by the actions
\* of all plan generations, and the front action of the queue is dispatched as
\* soon as every priority it depends on was completed by an action of any
\* generation, whether or not its own plan holds actions of those priorities
\* that have not run.
DependencySatisfiedAcrossPlans ==
  /\ [](completedActions = CompletedInAnyGeneration)
  /\ [][(/\ pc = "loop"
         /\ queue # << >>
         /\ Head(queue).dependencies \subseteq CompletedInAnyGeneration)
          => /\ pc' = "handler"
             /\ ActionId(current'[1]) = ActionId(Head(queue))]_vars

\* an action of a replacement plan runs without having been deferred on a
\* dependency that only an action of the old plan completed, while the
\* replacement plan's own action of that priority has not completed
RunsOnOldPlansCompletion ==
  /\ pc = "handler"
  /\ current[1].gen >= 1
  /\ current[1].defers = 0
  /\ \E dep \in current[1].dependencies :
       /\ dep \in CompletedInGeneration(0)
       /\ dep \notin CompletedInGeneration(current[1].gen)
       /\ Holders(PlanOf(current[1]), dep) # {}

\* C34: the summary's totalActions is the number of actions of the initial
\* plan, whatever plans were installed later and however the actions ended.
TotalActionsCountsInitialPlan ==
  executionSummary # << >> =>
    /\ executionSummary[1].totalActions = Len(plans[1])
    /\ executionSummary[1].totalActions
         = Cardinality({ id \in HandedOver : id[1] = 0 })

\* a summary was built after the initial plan was replaced by a plan of
\* another length and an action of the initial plan was discarded
SummaryAfterReplacement ==
  /\ executionSummary # << >>
  /\ generation >= 1
  /\ Len(plans[2]) # Len(plans[1])
  /\ \E f \in fates : f.fate = "discarded" /\ f.action.gen = 0
  /\ executionSummary[1].totalActions = 2

\* ------------------------------------------------------------------------
\* the retry loop of processAndCritique

\* no answer of the Task Breakdown AI that was looked at held the phrase
NoResponseHadPhrase == ~job.phrase /\ job.raised # "write_failed"

JobEnded == job.pc \in {"finished", "rejected"}

\* executeJsonActions is entered once, from the loop, after the phrase
EntersExecutionOnceAfterPhrase ==
  /\ (pc' # pc /\ pc' = "entry") => (pc = "idle" /\ job.pc = "loop" /\ job.phrase)
  /\ pc # "idle" => pc' # "idle"
  /\ job.pc \notin {"start", "loop"} => job'.pc \notin {"start", "loop"}
  /\ (job.pc = "loop" /\ job'.pc \notin {"loop", "finished"}) => job.phrase
  /\ job'.breakdownCalls > job.breakdownCalls =>
        (job'.breakdownCalls = job.breakdownCalls + 1 /\ ~job.phrase)

Exchanges == { k \in DOMAIN calls : calls[k].fn = "exchangeCodeForTokens" }

\* the exchanges that passed the state check
PassedStateCheck == { k \in Exchanges : calls[k].codeVerifier # 0 }

\* the exchanges that stored tokens and returned them
Exchanged == { k \in Exchanges : calls[k].pc = "returned" }

\* the step ends an exchange by an exception
ExchangeRaises ==
  \E k \in DOMAIN calls :
    /\ calls[k].pc = "posted"
    /\ k \in DOMAIN calls' /\ calls'[k].pc = "raised"

ExchangeReturns ==
  \E k \in DOMAIN calls :
    /\ calls[k].pc = "persisting"
    /\ k \in DOMAIN calls' /\ calls'[k].pc = "returned"

ExchangeRefused ==
  /\ Len(calls') = Len(calls) + 1
  /\ calls'[Len(calls')].pc = "raised"

\* C36: exchangeCodeForTokens accepts a callback only if its state is the one
\* stored by the most recent getFitbitAuthorizationUrl call and not yet
\* exchanged; a successful exchange deletes the stored state, so no state is
\* accepted twice; a failed exchange leaves the stored tokens unchanged
StateAcceptedAtMostOnce ==
  /\ [](\A k \in PassedStateCheck :
          /\ calls[k].state = AuthorizationsBefore(k)
          /\ calls[k].state >= 1)
  /\ [](\A k1, k2 \in Exchanged : calls[k1].state = calls[k2].state => k1 = k2)
  /\ [][(ExchangeRaises \/ ExchangeRefused) => fitbitTokens' = fitbitTokens]_vars
  /\ [][ExchangeReturns => fitbitPKCE' = << >>]_vars

\* ------------------------------------------------------------------------
\* the job folders

\* C37: any two accepted jobs, also jobs accepted at the same time, have
\* different job ids and different folders, and no file of one job is in the
\* folder of another
JobsKeptApart ==
  /\ \A i, j \in DOMAIN calls :
        i # j => /\ calls[i].jobId # calls[j].jobId
                 /\ calls[i].folderPath # calls[j].folderPath
  /\ \A f \in outputs.files : \A k \in DOMAIN calls :
        calls[k].folderPath = f.folder => calls[k].textToAnalyze = f.text

====
